---- MODULE Spec2Model ----
(***************************************************************************)
(* The subword vocabulary pipeline of BPE_preprocess.py and                *)
(* BPEPreprocess.py: the Vocabulary Filter, the construction of the        *)
(* Vocabulary Dictionary, and the Binarizer.                               *)
(*                                                                         *)
(* Text is modelled character by character: a file or a line is a sequence *)
(* of characters, a token is a non-empty sequence of non-blank characters. *)
(* A character is a one-element string; a few multi-letter strings such as *)
(* "<unk>" or "@@" stand for a run of letters that is never split.         *)
(***************************************************************************)
EXTENDS Integers, Sequences, FiniteSets, TLC

VARIABLES
    pc,            \* position of the running program
    variant,       \* which main is running: "BPE_preprocess" or "BPEPreprocess"
    quiet,         \* args.quiet
    lang,          \* index into Langs of the language being processed
    split,         \* index into Splits of the split being binarized
    corpus,        \* lines of train.bpe.<lang> read so far by build_bpe_dictionary
    bpe_dict,      \* the Dictionary object (bpe_dict / dictionary)
    dict_file,     \* content of the saved dictionary file, NoFile before save
    calls,         \* per language: how often add_word, finalize, save, binarize ran
    fin_args,      \* the (threshold, num_words) finalize was last called with
    append_eos,    \* make_binary_dataset's append_eos
    input_file,    \* content of the file the current operation reads
    output_file,   \* content of the file the current operation wrote
    nsent,         \* make_binary_dataset: sentences counted
    ntok,          \* make_binary_dataset: tokens counted
    unk_counter,   \* make_binary_dataset: the UNK Substitution Statistics
    log_msg,       \* the arguments of the summary logged by make_binary_dataset
    raised,        \* the exception that ended the operation, NoError if none
    first,         \* what the first of two make_binary_dataset calls produced
    bpe_codes,     \* the merge table of the segmenter
    vocab,         \* Vocabulary Filter: the frequency table loaded so far
    vocab_line,    \* Vocabulary Filter: the listing line read last
    vocab_lineno,  \* Vocabulary Filter: how many listing lines were read
    threshold      \* Vocabulary Filter: threshold

vars == <<pc, variant, quiet, lang, split, corpus, bpe_dict, dict_file, calls,
          fin_args, append_eos, input_file, output_file, nsent, ntok,
          unk_counter, log_msg, raised, first, bpe_codes, vocab, vocab_line,
          vocab_lineno, threshold>>

(***************************************************************************)
(* Bounds of the model.                                                    *)
(***************************************************************************)
MaxFileLen == 4          \* characters of a file given to make_binary_dataset
MaxTrainTokens == 2      \* add_word calls behind a dictionary in SpecBin
MaxFilterFileLen == 5    \* characters of a file given to the Vocabulary Filter
MaxVocabLines == 2       \* lines of a vocabulary listing
MaxThreshold == 2        \* largest threshold tried
MaxCorpusLines == 3      \* lines of train.bpe.<lang> in SpecPipe

\* A file that does not exist; no text holds this character.
NoFile == <<"no file">>
NoError == [type |-> "none"]
NoLog == "no log"
NoArgs == <<>>
Idle == "idle"

(***************************************************************************)
(* Text.                                                                   *)
(***************************************************************************)
NL == "\n"
SP == " "
Whitespace == {SP, NL, "\t", "\r"}

\* All sequences over S of length at most n.
SeqsUpTo(S, n) == UNION {[1..k -> S] : k \in 0..n}

RECURSIVE FirstNL(_, _)
FirstNL(text, i) ==
    IF i > Len(text) THEN 0
    ELSE IF text[i] = NL THEN i ELSE FirstNL(text, i + 1)

\* `for line in f`: the lines of a file, each with its line terminator; a last
\* line without terminator is a line too, an empty file has none.
RECURSIVE ReadLines(_)
ReadLines(text) ==
    IF text = <<>> THEN <<>>
    ELSE LET n == FirstNL(text, 1)
         IN  IF n = 0 THEN <<text>>
             ELSE <<SubSeq(text, 1, n)>> \o ReadLines(SubSeq(text, n + 1, Len(text)))

RECURSIVE lstrip(_)
lstrip(s) == IF s # <<>> /\ Head(s) \in Whitespace THEN lstrip(Tail(s)) ELSE s

RECURSIVE rstrip(_)
rstrip(s) ==
    IF s # <<>> /\ s[Len(s)] \in Whitespace THEN rstrip(SubSeq(s, 1, Len(s) - 1)) ELSE s

strip(s) == lstrip(rstrip(s))

\* str.split() without arguments: the maximal runs of non-blank characters.
RECURSIVE SplitFrom(_, _, _)
SplitFrom(s, i, cur) ==
    IF i > Len(s) THEN (IF cur = <<>> THEN <<>> ELSE <<cur>>)
    ELSE IF s[i] \in Whitespace
         THEN (IF cur = <<>> THEN <<>> ELSE <<cur>>) \o SplitFrom(s, i + 1, <<>>)
         ELSE SplitFrom(s, i + 1, Append(cur, s[i]))

str_split(s) == SplitFrom(s, 1, <<>>)

\* ' '.join(words)
RECURSIVE str_join(_)
str_join(words) ==
    IF words = <<>> THEN <<>>
    ELSE IF Len(words) = 1 THEN words[1]
    ELSE words[1] \o <<SP>> \o str_join(Tail(words))

\* SPACE_NORMALIZER.sub(" ", line): every run of blanks becomes one space.
RECURSIVE SPACE_NORMALIZER_sub(_)
SPACE_NORMALIZER_sub(s) ==
    IF s = <<>> THEN <<>>
    ELSE IF Head(s) \in Whitespace
         THEN <<SP>> \o SPACE_NORMALIZER_sub(lstrip(s))
         ELSE <<Head(s)>> \o SPACE_NORMALIZER_sub(Tail(s))

word_tokenize(line) == str_split(strip(SPACE_NORMALIZER_sub(line)))

(***************************************************************************)
(* The Vocabulary Dictionary (seq2seq.data.dictionary.Dictionary).  A       *)
(* dictionary is a record of two parallel sequences: words (the symbols,   *)
(* id = position - 1) and counts.  The reverse index is derived from       *)
(* words.                                                                  *)
(***************************************************************************)
pad_word == <<"<pad>">>
unk_word == <<"<unk>">>
bos_word == <<"<s>">>
eos_word == <<"</s>">>

SpecialWords == <<pad_word, unk_word, bos_word, eos_word>>
num_special == Len(SpecialWords)
SpecialCount == 1000000

pad_idx == 0
unk_idx == 1
bos_idx == 2
eos_idx == 3

Dictionary ==
    [words |-> SpecialWords, counts |-> [i \in 1..num_special |-> SpecialCount]]

Position(d, word) ==
    IF \E i \in 1..Len(d.words) : d.words[i] = word
    THEN CHOOSE i \in 1..Len(d.words) : d.words[i] = word
    ELSE 0

\* lookup: the id of a symbol, the unknown id when the symbol is absent.
index(d, word) == IF Position(d, word) = 0 THEN unk_idx ELSE Position(d, word) - 1

add_word(d, word) ==
    LET p == Position(d, word)
    IN  IF p # 0
        THEN [d EXCEPT !.counts[p] = @ + 1]
        ELSE [words |-> Append(d.words, word), counts |-> Append(d.counts, 1)]

\* Positions of the non-special symbols by (count descending, insertion order
\* ascending).
RECURSIVE SortedPositions(_, _)
SortedPositions(d, left) ==
    IF left = {} THEN <<>>
    ELSE LET best == CHOOSE p \in left :
                        \A q \in left :
                            \/ d.counts[p] > d.counts[q]
                            \/ d.counts[p] = d.counts[q] /\ p <= q
         IN  <<best>> \o SortedPositions(d, left \ {best})

finalize(d, thr, max_size) ==
    LET sorted == SortedPositions(d, (num_special + 1)..Len(d.words))
        capped == IF max_size < 0 \/ max_size >= Len(sorted) THEN sorted
                  ELSE SubSeq(sorted, 1, max_size)
        kept   == SelectSeq(capped, LAMBDA p : d.counts[p] >= thr)
    IN  [words  |-> SubSeq(d.words, 1, num_special)
                      \o [i \in 1..Len(kept) |-> d.words[kept[i]]],
         counts |-> SubSeq(d.counts, 1, num_special)
                      \o [i \in 1..Len(kept) |-> d.counts[kept[i]]]]

\* save: one (symbol, count) entry per line in id order, after the specials.
save(d) ==
    [i \in 1..(Len(d.words) - num_special) |->
        <<d.words[num_special + i], d.counts[num_special + i]>>]

(***************************************************************************)
(* The Binarizer.                                                          *)
(***************************************************************************)
EmptyCounter == [w \in {} |-> 0]

Counter_update(counter, word) ==
    IF word \in DOMAIN counter
    THEN [counter EXCEPT ![word] = @ + 1]
    ELSE counter @@ (word :> 1)

RECURSIVE SumValues(_, _)
SumValues(counter, keys) ==
    IF keys = {} THEN 0
    ELSE LET k == CHOOSE k \in keys : TRUE
         IN  counter[k] + SumValues(counter, keys \ {k})

Counter_total(counter) == SumValues(counter, DOMAIN counter)

unk_consumer_any(counter, d, word, idx) ==
    IF idx = unk_idx THEN Counter_update(counter, word) ELSE counter

unk_consumer(counter, d, word, idx) ==
    IF idx = unk_idx /\ word # unk_word THEN Counter_update(counter, word) ELSE counter

\* consumer(token, id) for every token of the line, left to right.
RECURSIVE Consume(_, _, _)
Consume(counter, d, tokens) ==
    IF tokens = <<>> THEN counter
    ELSE Consume(unk_consumer(counter, d, Head(tokens), index(d, Head(tokens))),
                 d, Tail(tokens))

\* Dictionary.binarize(string, tokenizer, append_eos, consumer)
binarize(d, string, eos, counter) ==
    LET tokens == word_tokenize(string)
        ids    == [i \in 1..Len(tokens) |-> index(d, tokens[i])]
    IN  [ids     |-> IF eos THEN Append(ids, eos_idx) ELSE ids,
         counter |-> Consume(counter, d, tokens)]

\* The accumulators kept from the call before.
StaleAccumulators ==
    [nsent |-> nsent, ntok |-> ntok, unk_counter |-> unk_counter, tokens_list |-> <<>>]

FreshAccumulators ==
    [nsent |-> 0, ntok |-> 0, unk_counter |-> EmptyCounter, tokens_list |-> <<>>]

NextLineSkipBlank(acc, d, line, eos) ==
    IF word_tokenize(line) = <<>> THEN acc
    ELSE LET b == binarize(d, strip(line), eos, acc.unk_counter)
         IN  [nsent |-> acc.nsent + 1,
              ntok |-> acc.ntok + Len(b.ids),
              unk_counter |-> b.counter,
              tokens_list |-> Append(acc.tokens_list, b.ids)]

\* One turn of the loop over the lines of the input file.
NextLine(acc, d, line, eos) ==
    LET b == binarize(d, strip(line), eos, acc.unk_counter)
    IN  [nsent |-> acc.nsent + 1,
         ntok |-> acc.ntok + Len(b.ids),
         unk_counter |-> b.counter,
         tokens_list |-> Append(acc.tokens_list, b.ids)]

RECURSIVE LineLoop(_, _, _, _)
LineLoop(acc, d, lines, eos) ==
    IF lines = <<>> THEN acc
    ELSE LineLoop(NextLine(acc, d, Head(lines), eos), d, Tail(lines), eos)

\* The summary: what logging.info is given, or the exception its arguments raise.
Summary(acc) ==
    IF acc.ntok = 0
    THEN [error |-> [type |-> "ZeroDivisionError", message |-> <<"float division by zero">>],
          log |-> NoLog]
    ELSE [error |-> NoError,
          log |-> [nsent |-> acc.nsent, ntok |-> acc.ntok,
                   percent |-> <<100 * Counter_total(acc.unk_counter), acc.ntok>>]]

\* make_binary_dataset(input_file, output_file, dictionary): the whole call.
make_binary_dataset(text) ==
    LET acc == LineLoop(FreshAccumulators, bpe_dict, ReadLines(text), append_eos)
        sum == IF quiet THEN [error |-> NoError, log |-> NoLog] ELSE Summary(acc)
    IN  /\ input_file' = text
        /\ output_file' = acc.tokens_list
        /\ nsent' = acc.nsent
        /\ ntok' = acc.ntok
        /\ unk_counter' = acc.unk_counter
        /\ log_msg' = sum.log
        /\ raised' = sum.error

(***************************************************************************)
(* SpecBin: make_binary_dataset called twice on one input file with one    *)
(* dictionary.  The file is any text over BinAlphabet of at most           *)
(* MaxFileLen characters; the dictionary is one that build_bpe_dictionary  *)
(* can have built, finalized (BPE_preprocess.py) or not (BPEPreprocess.py).*)
(***************************************************************************)
BinAlphabet == {"a", "<unk>", SP, NL}
TrainTokens == {<<"a">>, <<"a", "a">>}

RECURSIVE AddAll(_, _)
AddAll(d, tokens) ==
    IF tokens = <<>> THEN d ELSE AddAll(add_word(d, Head(tokens)), Tail(tokens))

BuiltDictionaries == {AddAll(Dictionary, ws) : ws \in SeqsUpTo(TrainTokens, MaxTrainTokens)}

BinDictionaries ==
    BuiltDictionaries
        \cup {finalize(d, t, -1) : d \in BuiltDictionaries, t \in 1..MaxThreshold}

NoCalls == [add_word |-> 0, finalize |-> 0, save |-> 0, binarize |-> 0]

Outcome == <<output_file, nsent, ntok, unk_counter, log_msg, raised>>

InitBin ==
    /\ pc = "ready"
    /\ bpe_dict \in BinDictionaries
    /\ input_file \in SeqsUpTo(BinAlphabet, MaxFileLen)
    /\ append_eos \in BOOLEAN
    /\ quiet \in BOOLEAN
    /\ calls = NoCalls
    /\ output_file = NoFile
    /\ nsent = 0 /\ ntok = 0 /\ unk_counter = EmptyCounter
    /\ log_msg = NoLog /\ raised = NoError /\ first = Idle
    /\ variant = Idle /\ lang = Idle /\ split = Idle /\ corpus = Idle
    /\ dict_file = Idle /\ fin_args = Idle
    /\ bpe_codes = Idle /\ vocab = Idle /\ vocab_line = Idle /\ vocab_lineno = 0
    /\ threshold = Idle

UnchangedPipe == UNCHANGED <<variant, lang, split, corpus, dict_file, fin_args>>
UnchangedFilter == UNCHANGED <<bpe_codes, vocab, vocab_line, vocab_lineno, threshold>>

BinFirstCall ==
    /\ pc = "ready"
    /\ make_binary_dataset(input_file)
    /\ first' = Outcome'
    /\ calls' = [calls EXCEPT !.binarize = 1]
    /\ pc' = IF raised' = NoError THEN "returned" ELSE "raised"
    /\ UNCHANGED <<bpe_dict, append_eos, quiet>>
    /\ UnchangedPipe /\ UnchangedFilter

BinSecondCall ==
    /\ pc \in {"returned", "raised"}
    /\ calls.binarize = 1
    /\ make_binary_dataset(input_file)
    /\ calls' = [calls EXCEPT !.binarize = 2]
    /\ pc' = IF raised' = NoError THEN "returned" ELSE "raised"
    /\ UNCHANGED <<bpe_dict, append_eos, quiet, first>>
    /\ UnchangedPipe /\ UnchangedFilter

NextBin == BinFirstCall \/ BinSecondCall

SpecBin == InitBin /\ [][NextBin]_vars

(***************************************************************************)
(* The segmenter (subword_nmt's BPE.process_line).  A word is cut into its *)
(* characters, the merges of the table are applied in the table's order,   *)
(* and every piece but the last of a word is marked with "@@".             *)
(***************************************************************************)
RECURSIVE MergePair(_, _)
MergePair(pieces, pair) ==
    IF Len(pieces) < 2 THEN pieces
    ELSE IF pieces[1] = pair[1] /\ pieces[2] = pair[2]
         THEN <<pieces[1] \o pieces[2]>> \o MergePair(SubSeq(pieces, 3, Len(pieces)), pair)
         ELSE <<pieces[1]>> \o MergePair(Tail(pieces), pair)

Applicable(pieces, codes) ==
    {n \in 1..Len(codes) :
        \E i \in 1..(Len(pieces) - 1) :
            pieces[i] = codes[n][1] /\ pieces[i + 1] = codes[n][2]}

RECURSIVE ApplyMerges(_, _)
ApplyMerges(pieces, codes) ==
    IF Applicable(pieces, codes) = {} THEN pieces
    ELSE LET n == CHOOSE x \in Applicable(pieces, codes) :
                      \A y \in Applicable(pieces, codes) : x <= y
         IN  ApplyMerges(MergePair(pieces, codes[n]), codes)

segment_word(word, codes) ==
    LET pieces == ApplyMerges([i \in 1..Len(word) |-> <<word[i]>>], codes)
    IN  [i \in 1..Len(pieces) |->
            IF i < Len(pieces) THEN pieces[i] \o <<"@@">> ELSE pieces[i]]

RECURSIVE segment_tokens(_, _)
segment_tokens(words, codes) ==
    IF words = <<>> THEN <<>>
    ELSE segment_word(Head(words), codes) \o segment_tokens(Tail(words), codes)

\* bpe.process_line(line): the leading blanks, then the segments of the words
\* joined by single spaces.
process_line(line, codes) ==
    SubSeq(line, 1, Len(line) - Len(lstrip(line)))
        \o str_join(segment_tokens(str_split(line), codes))

(***************************************************************************)
(* The Vocabulary Filter: apply_bpe_with_vocab_filter.                     *)
(***************************************************************************)
Digits == <<"0", "1", "2", "3", "4", "5", "6", "7", "8", "9">>

DigitValue(c) == (CHOOSE i \in 1..Len(Digits) : Digits[i] = c) - 1

IsDigit(c) == \E i \in 1..Len(Digits) : Digits[i] = c

\* Whether int(token) succeeds: an optional sign, then digits only.
IsIntLiteral(token) ==
    LET body == IF token # <<>> /\ token[1] \in {"+", "-"} THEN Tail(token) ELSE token
    IN  body # <<>> /\ \A i \in 1..Len(body) : IsDigit(body[i])

RECURSIVE DecimalValue(_)
DecimalValue(body) ==
    IF body = <<>> THEN 0
    ELSE 10 * DecimalValue(SubSeq(body, 1, Len(body) - 1)) + DigitValue(body[Len(body)])

int(token) ==
    IF token[1] = "-" THEN 0 - DecimalValue(Tail(token))
    ELSE IF token[1] = "+" THEN DecimalValue(Tail(token))
    ELSE DecimalValue(token)

ValueError(message) == [type |-> "ValueError", message |-> message]

\* The first two fields are taken and the rest ignored.
ParseVocabLineLenient(line) ==
    LET fields == str_split(strip(line))
    IN  IF Len(fields) < 2
        THEN [error |-> ValueError(<<"not enough values to unpack", 2, Len(fields)>>)]
        ELSE IF ~IsIntLiteral(fields[2])
        THEN [error |-> ValueError(<<"invalid literal for int() with base 10", fields[2]>>)]
        ELSE [error |-> NoError, word |-> fields[1], freq |-> int(fields[2])]

\* word, freq = line.strip().split(); int(freq)
ParseVocabLine(line) ==
    LET fields == str_split(strip(line))
    IN  IF Len(fields) < 2
        THEN [error |-> ValueError(<<"not enough values to unpack", 2, Len(fields)>>)]
        ELSE IF Len(fields) > 2
        THEN [error |-> ValueError(<<"too many values to unpack", 2>>)]
        ELSE IF ~IsIntLiteral(fields[2])
        THEN [error |-> ValueError(<<"invalid literal for int() with base 10", fields[2]>>)]
        ELSE [error |-> NoError, word |-> fields[1], freq |-> int(fields[2])]

EmptyVocab == [w \in {} |-> 0]

dict_set(d, key, value) == [k \in DOMAIN d \cup {key} |-> IF k = key THEN value ELSE d[k]]

dict_get(d, key, default) == IF key \in DOMAIN d THEN d[key] ELSE default

UNKNOWN == <<"@@UNKNOWN@@">>

KeepAbove(v, word, thr) == dict_get(v, word, 0) > thr

KeepBelow(v, word, thr) == dict_get(v, word, 0) < thr

\* Whether the filter keeps the word: vocab.get(word, 0) >= threshold.
Keep(v, word, thr) == dict_get(v, word, 0) >= thr

filtered_line(words, v, thr) ==
    [i \in 1..Len(words) |-> IF Keep(v, words[i], thr) THEN words[i] ELSE UNKNOWN]

RECURSIVE FilterLines(_, _, _, _)
FilterLines(lines, codes, v, thr) ==
    IF lines = <<>> THEN <<>>
    ELSE str_join(filtered_line(str_split(process_line(rstrip(Head(lines)), codes)), v, thr))
            \o <<NL>> \o FilterLines(Tail(lines), codes, v, thr)

(***************************************************************************)
(* SpecFilter: one call of apply_bpe_with_vocab_filter.  The vocabulary    *)
(* listing is read line by line, every line being any of VocabLines; the   *)
(* input file is any text over FilterAlphabet of at most MaxFilterFileLen  *)
(* characters.                                                             *)
(***************************************************************************)
FilterAlphabet == {"x", "y", SP, NL}

VocabLines ==
    {<<"x", SP, "1", NL>>, <<"x", SP, "5", NL>>, <<"y", SP, "1", NL>>,
     <<SP, "y", SP, SP, "1", NL>>, <<"x", "@@", SP, "1", "0">>,
     <<NL>>, <<"x", NL>>, <<"x", SP, "1", SP, "1", NL>>,
     <<"x", SP, "y", NL>>, <<"y", SP, "1", ".", "5", NL>>}

BpeTables == {<<>>, << <<<<"x">>, <<"y">>>> >>}

InitFilter ==
    /\ pc = "load"
    /\ vocab = EmptyVocab
    /\ vocab_line = <<>>
    /\ vocab_lineno = 0
    /\ threshold \in 1..MaxThreshold
    /\ bpe_codes \in BpeTables
    /\ input_file = NoFile
    /\ output_file = NoFile
    /\ raised = NoError
    /\ bpe_dict = Idle /\ append_eos = Idle /\ quiet = Idle /\ calls = NoCalls
    /\ nsent = 0 /\ ntok = 0 /\ unk_counter = EmptyCounter
    /\ log_msg = NoLog /\ first = Idle
    /\ variant = Idle /\ lang = Idle /\ split = Idle /\ corpus = Idle
    /\ dict_file = Idle /\ fin_args = Idle

UnchangedBin ==
    UNCHANGED <<bpe_dict, append_eos, quiet, calls, nsent, ntok, unk_counter, log_msg, first>>

\* One turn of the loop over the vocabulary listing.
FilterLoadLine ==
    /\ pc = "load"
    /\ vocab_lineno < MaxVocabLines
    /\ \E line \in VocabLines :
          LET p == ParseVocabLine(line)
          IN  /\ vocab_line' = line
              /\ vocab_lineno' = vocab_lineno + 1
              /\ raised' = p.error
              /\ IF p.error = NoError
                 THEN vocab' = dict_set(vocab, p.word, p.freq) /\ pc' = "load"
                 ELSE vocab' = vocab /\ pc' = "raised"
    /\ UNCHANGED <<threshold, bpe_codes, input_file, output_file>>
    /\ UnchangedBin /\ UnchangedPipe

\* The listing is exhausted and closed: the input is read and the output
\* written.
FilterApply ==
    /\ pc = "load"
    /\ \E text \in SeqsUpTo(FilterAlphabet, MaxFilterFileLen) :
          /\ input_file' = text
          /\ output_file' = FilterLines(ReadLines(text), bpe_codes, vocab, threshold)
    /\ vocab_line' = <<>>
    /\ vocab_lineno' = 0
    /\ pc' = "done"
    /\ UNCHANGED <<vocab, threshold, bpe_codes, raised>>
    /\ UnchangedBin /\ UnchangedPipe

NextFilter == FilterLoadLine \/ FilterApply

SpecFilter == InitFilter /\ [][NextFilter]_vars

(***************************************************************************)
(* SpecPipe: the last step of main, in both variants: for every language   *)
(* the dictionary is built from train.bpe.<lang>, finalized                *)
(* (BPE_preprocess.py only), saved, and the four splits are binarized.     *)
(* The training file is read line by line, every line being any of         *)
(* CorpusLines; the other splits' files are any of PipeFiles.              *)
(***************************************************************************)
Langs == <<"source_lang", "target_lang">>
Splits == <<"train", "valid", "test", "tiny_train">>
Variants == {"BPE_preprocess", "BPEPreprocess"}

CorpusLines ==
    {<<"a", SP, "a", SP, "a", NL>>, <<"b", SP, "b", NL>>, <<"c", NL>>,
     <<SP, "c", SP, SP, "a", NL>>}

PipeFiles ==
    {<<>>, <<"a", SP, "b", SP, "c", NL>>, <<"c", SP, "<unk>", NL, NL, "a">>}

NumWordsChoices == {-1, 1}

\* The statements of the loop body with the dictionary saved last.
Step5SaveLast(v) ==
    IF v = "BPE_preprocess" THEN <<"build", "finalize", "binarize", "save">>
    ELSE <<"build", "binarize", "save">>

\* The statements of the loop body over the languages, in order.
Step5(v) ==
    IF v = "BPE_preprocess" THEN <<"build", "finalize", "save", "binarize">>
    ELSE <<"build", "save", "binarize">>

NextStmt(v, stmt) ==
    LET body == Step5(v)
        i == CHOOSE j \in 1..Len(body) : body[j] = stmt
    IN  IF i = Len(body) THEN "end" ELSE body[i + 1]

\* Only the first token of the line is added.
build_line_first_token(d, line) ==
    LET tokens == str_split(strip(line))
    IN  IF tokens = <<>> THEN d ELSE add_word(d, tokens[1])

\* build_bpe_dictionary: add_word for every token of the line.
build_line(d, line) == AddAll(d, str_split(strip(line)))

RECURSIVE Concat(_)
Concat(lines) == IF lines = <<>> THEN <<>> ELSE Head(lines) \o Concat(Tail(lines))

\* The file <split>.bpe.<lang>; train.bpe.<lang> is the file the dictionary was
\* built from.
SplitFiles(s) == IF Splits[s] = "train" THEN {Concat(corpus)} ELSE PipeFiles

InitPipe ==
    /\ pc = "build"
    /\ variant \in Variants
    /\ quiet \in BOOLEAN
    /\ lang = 1
    /\ split = 0
    /\ corpus = <<>>
    /\ bpe_dict = Dictionary
    /\ dict_file = NoFile
    /\ calls = NoCalls
    /\ fin_args = NoArgs
    /\ append_eos = TRUE
    /\ input_file = NoFile
    /\ output_file = NoFile
    /\ nsent = 0 /\ ntok = 0 /\ unk_counter = EmptyCounter
    /\ log_msg = NoLog /\ raised = NoError /\ first = Idle
    /\ bpe_codes = Idle /\ vocab = Idle /\ vocab_line = Idle /\ vocab_lineno = 0
    /\ threshold = Idle

UnchangedOutcome ==
    UNCHANGED <<input_file, output_file, nsent, ntok, unk_counter, log_msg, raised>>

\* build_bpe_dictionary reads one line of train.bpe.<lang>.
PipeBuildLine ==
    /\ pc = "build"
    /\ Len(corpus) < MaxCorpusLines
    /\ \E line \in CorpusLines :
          /\ corpus' = Append(corpus, line)
          /\ bpe_dict' = build_line(bpe_dict, line)
          /\ calls' = [calls EXCEPT !.add_word = @ + Len(str_split(strip(line)))]
    /\ UNCHANGED <<pc, variant, quiet, lang, split, dict_file, fin_args, append_eos, first>>
    /\ UnchangedOutcome /\ UnchangedFilter

\* build_bpe_dictionary reaches the end of the file and returns.
PipeBuildReturn ==
    /\ pc = "build"
    /\ pc' = NextStmt(variant, "build")
    /\ UNCHANGED <<variant, quiet, lang, split, corpus, bpe_dict, dict_file, calls,
                   fin_args, append_eos, first>>
    /\ UnchangedOutcome /\ UnchangedFilter

\* bpe_dict.finalize(threshold=args.threshold_*, num_words=args.num_words_*)
PipeFinalize ==
    /\ pc = "finalize"
    /\ \E thr \in 1..MaxThreshold, num_words \in NumWordsChoices :
          /\ bpe_dict' = finalize(bpe_dict, thr, num_words)
          /\ fin_args' = <<thr, num_words>>
    /\ calls' = [calls EXCEPT !.finalize = @ + 1]
    /\ pc' = NextStmt(variant, "finalize")
    /\ UNCHANGED <<variant, quiet, lang, split, corpus, dict_file, append_eos, first>>
    /\ UnchangedOutcome /\ UnchangedFilter

\* bpe_dict.save(dict_path)
PipeSave ==
    /\ pc = "save"
    /\ dict_file' = save(bpe_dict)
    /\ calls' = [calls EXCEPT !.save = @ + 1]
    /\ pc' = NextStmt(variant, "save")
    /\ UNCHANGED <<variant, quiet, lang, split, corpus, bpe_dict, fin_args, append_eos,
                   first>>
    /\ UnchangedOutcome /\ UnchangedFilter

\* make_binary_dataset for the next split; an exception ends main.
PipeBinarize ==
    /\ pc = "binarize"
    /\ split < Len(Splits)
    /\ \E text \in SplitFiles(split + 1) : make_binary_dataset(text)
    /\ split' = split + 1
    /\ calls' = [calls EXCEPT !.binarize = @ + 1]
    /\ pc' = IF raised' # NoError THEN "raised"
             ELSE IF split' = Len(Splits) THEN NextStmt(variant, "binarize")
             ELSE "binarize"
    /\ UNCHANGED <<variant, quiet, lang, corpus, bpe_dict, dict_file, fin_args,
                   append_eos, first>>
    /\ UnchangedFilter

\* The loop over the languages goes on with the target language.
PipeNextLang ==
    /\ pc = "end"
    /\ lang < Len(Langs)
    /\ lang' = lang + 1
    /\ pc' = "build"
    /\ split' = 0
    /\ corpus' = <<>>
    /\ bpe_dict' = Dictionary
    /\ dict_file' = NoFile
    /\ calls' = NoCalls
    /\ fin_args' = NoArgs
    /\ input_file' = NoFile
    /\ output_file' = NoFile
    /\ nsent' = 0 /\ ntok' = 0 /\ unk_counter' = EmptyCounter
    /\ log_msg' = NoLog
    /\ UNCHANGED <<variant, quiet, append_eos, raised, first>>
    /\ UnchangedFilter

NextPipe ==
    \/ PipeBuildLine
    \/ PipeBuildReturn
    \/ PipeFinalize
    \/ PipeSave
    \/ PipeBinarize
    \/ PipeNextLang

SpecPipe == InitPipe /\ [][NextPipe]_vars

(***************************************************************************)
(* What the claims say of a text, stated without the program's own         *)
(* operators: its lines and the whitespace tokens of a line.               *)
(***************************************************************************)
LineStarts(text) ==
    IF text = <<>> THEN {}
    ELSE {1} \cup {i + 1 : i \in {j \in 1..(Len(text) - 1) : text[j] = NL}}

NumLines(text) == Cardinality(LineStarts(text))

\* The k-th line of the text, without its terminator.
LineOf(text, k) ==
    LET s == CHOOSE t \in LineStarts(text) :
                 Cardinality({u \in LineStarts(text) : u < t}) = k - 1
        ends == {e \in s..Len(text) : text[e] = NL}
        e == IF ends = {} THEN Len(text) + 1
             ELSE CHOOSE x \in ends : \A y \in ends : x <= y
    IN  SubSeq(text, s, e - 1)

TokenRuns(line) ==
    {r \in (1..Len(line)) \X (1..Len(line)) :
        /\ r[1] <= r[2]
        /\ r[1] = 1 \/ line[r[1] - 1] \in Whitespace
        /\ r[2] = Len(line) \/ line[r[2] + 1] \in Whitespace
        /\ \A m \in r[1]..r[2] : line[m] \notin Whitespace}

\* The whitespace tokens of a line, left to right.
TokensOf(line) ==
    LET runs == TokenRuns(line)
    IN  [k \in 1..Cardinality(runs) |->
            LET r == CHOOSE q \in runs : Cardinality({o \in runs : o[1] < q[1]}) = k - 1
            IN  SubSeq(line, r[1], r[2])]

ExpectedIds(d, line, eos) ==
    LET t == TokensOf(line)
        ids == [i \in 1..Len(t) |-> index(d, t[i])]
    IN  IF eos THEN ids \o <<eos_idx>> ELSE ids

RECURSIVE SumLen(_)
SumLen(seqs) == IF seqs = <<>> THEN 0 ELSE Len(Head(seqs)) + SumLen(Tail(seqs))

\* Occurrences of word in the text as a token that is out of vocabulary and
\* not the literal unknown symbol.
UnkOccurrences(d, text, word) ==
    {o \in UNION {{<<k, i>> : i \in 1..Len(TokensOf(LineOf(text, k)))} :
                      k \in 1..NumLines(text)} :
        /\ TokensOf(LineOf(text, o[1]))[o[2]] = word
        /\ index(d, word) = unk_idx
        /\ word # unk_word}

AllTokens(text) ==
    UNION {{TokensOf(LineOf(text, k))[i] : i \in 1..Len(TokensOf(LineOf(text, k)))} :
               k \in 1..NumLines(text)}

CallDone == pc \in {"returned", "raised"}

\* C3: after make_binary_dataset the output holds one id sequence per input
\* line, in input order; each is the lookup of the line's whitespace tokens left
\* to right, followed by the eos id when append_eos is set; nsent is the number
\* of input lines and ntok the sum of the sequence lengths.  A line without
\* tokens is one sentence whose sequence is the eos id alone, or empty.
Thm_C3_OneSequencePerLine ==
    CallDone =>
        /\ Len(output_file) = NumLines(input_file)
        /\ nsent = NumLines(input_file)
        /\ \A k \in 1..NumLines(input_file) :
              output_file[k] = ExpectedIds(bpe_dict, LineOf(input_file, k), append_eos)
        /\ ntok = SumLen(output_file)
        /\ \A k \in 1..NumLines(input_file) :
              TokensOf(LineOf(input_file, k)) = <<>> =>
                  output_file[k] = IF append_eos THEN <<eos_idx>> ELSE <<>>

\* A blank line between two lines with tokens was binarized with eos.
Wit_C3_BlankLineBetween ==
    /\ CallDone
    /\ append_eos
    /\ NumLines(input_file) = 3
    /\ TokensOf(LineOf(input_file, 1)) # <<>>
    /\ TokensOf(LineOf(input_file, 2)) = <<>>
    /\ TokensOf(LineOf(input_file, 3)) # <<>>
    /\ output_file[2] = <<eos_idx>>
    /\ nsent = 3

\* C4: after make_binary_dataset the UNK Substitution Statistics map each
\* surface form to the number of its token occurrences that resolve to the
\* unknown id and are not the literal unknown symbol; nothing else is counted.
Thm_C4_UnkStatistics ==
    CallDone =>
        /\ DOMAIN unk_counter =
              {w \in AllTokens(input_file) : UnkOccurrences(bpe_dict, input_file, w) # {}}
        /\ \A w \in DOMAIN unk_counter :
              unk_counter[w] = Cardinality(UnkOccurrences(bpe_dict, input_file, w))
        /\ unk_word \notin DOMAIN unk_counter
        /\ \A w \in DOMAIN unk_counter : Position(bpe_dict, w) = 0

\* The input held the literal unknown symbol and an out-of-vocabulary token,
\* which was counted, and the dictionary holds a symbol of its own.
Wit_C4_LiteralUnkNotCounted ==
    /\ CallDone
    /\ unk_word \in AllTokens(input_file)
    /\ Len(bpe_dict.words) > num_special
    /\ \E w \in DOMAIN unk_counter : unk_counter[w] = 1

\* C5: make_binary_dataset never raises, whatever the input file and whether
\* or not logging is quiet.
Claim_C5_SummaryNeverFails == raised = NoError

\* C10: the second make_binary_dataset call on the same file with the same
\* dictionary produces what the first produced: the same output sequences,
\* sentence count, token count and UNK Substitution Statistics.
Thm_C10_SecondCallSame ==
    calls.binarize = 2 => Outcome = first

\* The second call returned, having counted sentences and unknown tokens.
Wit_C10_SecondCallCounted ==
    /\ calls.binarize = 2
    /\ pc = "returned"
    /\ nsent = 2
    /\ unk_counter # EmptyCounter

(***************************************************************************)
(* The Vocabulary Filter's claims.                                         *)
(***************************************************************************)
\* The tokens of the k-th input line as segmented by the segmenter.
SegmentedTokens(k) == TokensOf(process_line(rstrip(LineOf(input_file, k)), bpe_codes))

RecordedFrequency(word) == IF word \in DOMAIN vocab THEN vocab[word] ELSE 0

\* C2: the Vocabulary Filter writes one output line per input line, in order;
\* each output line has as many tokens as the segmented input line, in the same
\* order; a token is the sentinel if its recorded frequency is below the
\* threshold and is the segmented token unchanged otherwise.
Thm_C2_FilterSubstitutesOnly ==
    pc = "done" =>
        /\ NumLines(output_file) = NumLines(input_file)
        /\ output_file # <<>> => output_file[Len(output_file)] = NL
        /\ \A k \in 1..NumLines(input_file) :
              LET seg == SegmentedTokens(k)
                  out == TokensOf(LineOf(output_file, k))
              IN  /\ Len(out) = Len(seg)
                  /\ \A i \in 1..Len(seg) :
                        /\ RecordedFrequency(seg[i]) < threshold => out[i] = UNKNOWN
                        /\ RecordedFrequency(seg[i]) >= threshold => out[i] = seg[i]
                        /\ out[i] # seg[i] => RecordedFrequency(seg[i]) < threshold

\* Two lines were filtered; the first was cut by the segmenter into more tokens
\* than it had words, one of them kept and one replaced, the kept one sitting
\* exactly at the threshold.
Wit_C2_KeptAndReplaced ==
    /\ pc = "done"
    /\ NumLines(input_file) = 2
    /\ Len(SegmentedTokens(1)) > Len(TokensOf(LineOf(input_file, 1)))
    /\ \E i \in 1..Len(SegmentedTokens(1)) :
          /\ RecordedFrequency(SegmentedTokens(1)[i]) = threshold
          /\ TokensOf(LineOf(output_file, 1))[i] = SegmentedTokens(1)[i]
    /\ \E i \in 1..Len(SegmentedTokens(1)) : TokensOf(LineOf(output_file, 1))[i] = UNKNOWN

\* The scenario of C8: the table {x:5, y:1}, threshold 2, the input line "x y x".
Scenario_C8 ==
    /\ pc = "done"
    /\ vocab = (<<"x">> :> 5) @@ (<<"y">> :> 1)
    /\ threshold = 2
    /\ NumLines(input_file) = 1
    /\ LineOf(input_file, 1) = <<"x", SP, "y", SP, "x">>

\* C8 as stated: in the scenario the output line is "x <LOWFREQ> x".
Claim_C8_SentinelIsLowfreq ==
    Scenario_C8 => output_file = <<"x", SP, "<LOWFREQ>", SP, "x", NL>>

\* C8 as amended: in the scenario the output line is "x @@UNKNOWN@@ x": the
\* sentinel is the literal symbol @@UNKNOWN@@, substituted for y only.
Thm_C8_SentinelIsUnknown ==
    Scenario_C8 => output_file = <<"x", SP, "@@UNKNOWN@@", SP, "x", NL>>

Wit_C8_ScenarioFiltered == Scenario_C8 /\ output_file # NoFile

\* A listing line that has not exactly two fields, or whose frequency is no
\* integer.
Malformed(line) ==
    \/ Len(TokensOf(line)) # 2
    \/ ~IsIntLiteral(TokensOf(line)[2])

\* C9 as stated: a malformed listing line makes loading fail with an error that
\* names the listing's path and the line number, and nothing is written.
Claim_C9_ErrorNamesLine ==
    (vocab_lineno > 0 /\ Malformed(vocab_line)) =>
        /\ pc = "raised"
        /\ "path" \in DOMAIN raised
        /\ "lineno" \in DOMAIN raised
        /\ raised.lineno = vocab_lineno
        /\ output_file = NoFile

\* C9 as amended: a malformed listing line makes loading fail with a ValueError
\* that carries Python's message only (the number of fields, or the literal
\* that is no integer), neither the listing's path nor the line number; the
\* input is not read and no output is written.  Nothing else makes loading fail.
Thm_C9_ValueErrorWithoutLine ==
    /\ (vocab_lineno > 0 /\ Malformed(vocab_line)) =>
          /\ pc = "raised"
          /\ raised.type = "ValueError"
          /\ DOMAIN raised = {"type", "message"}
          /\ input_file = NoFile
          /\ output_file = NoFile
    /\ pc = "raised" => vocab_lineno > 0 /\ Malformed(vocab_line)

\* The second listing line had three fields and loading failed on it.
Wit_C9_SecondLineMalformed ==
    /\ pc = "raised"
    /\ vocab_lineno = 2
    /\ Len(TokensOf(vocab_line)) = 3
    /\ vocab # EmptyVocab

(***************************************************************************)
(* The pipeline's claims.                                                  *)
(***************************************************************************)
\* C1: for each language's dictionary, in both variants, all add_word calls
\* happen first, then finalize is called exactly once, and only after that does
\* a make_binary_dataset call read the dictionary.
Claim_C1_FinalizeOnceBeforeBinarize ==
    [][/\ calls'.add_word > calls.add_word => calls.finalize = 0 /\ calls.binarize = 0
       /\ calls'.finalize > calls.finalize => calls.finalize = 0 /\ calls.binarize = 0
       /\ calls'.binarize > calls.binarize => calls.finalize = 1]_vars

\* C6: for each language no make_binary_dataset call begins before the
\* dictionary has been saved, and from the first call on the dictionary is the
\* one that was saved.
Thm_C6_SavedBeforeBinarize ==
    (pc = "binarize" \/ calls.binarize > 0) =>
        /\ calls.save = 1
        /\ dict_file # NoFile
        /\ dict_file = save(bpe_dict)

\* All four splits of the target language were binarized against a saved
\* dictionary that holds symbols.
Wit_C6_AllSplitsBinarized ==
    /\ lang = Len(Langs)
    /\ calls.binarize = Len(Splits)
    /\ pc = "end"
    /\ Len(dict_file) > 0

\* The scenario of C7: the corpus ["a a a", "b b", "c"], finalized with
\* threshold 2 and no size cap.
Scenario_C7 ==
    /\ corpus = <<<<"a", SP, "a", SP, "a", NL>>, <<"b", SP, "b", NL>>, <<"c", NL>>>>
    /\ calls.finalize = 1
    /\ fin_args = <<2, -1>>

\* C7: in the scenario the dictionary retains a (count 3) and b (count 2) and
\* drops c; the line "a b c" is then binarized to [id(a), id(b), id(unknown),
\* id(eos)] and exactly one UNK substitution is recorded, for "c".
Thm_C7_Scenario ==
    Scenario_C7 =>
        /\ SubSeq(bpe_dict.words, num_special + 1, Len(bpe_dict.words))
              = <<<<"a">>, <<"b">>>>
        /\ SubSeq(bpe_dict.counts, num_special + 1, Len(bpe_dict.counts)) = <<3, 2>>
        /\ Position(bpe_dict, <<"c">>) = 0
        /\ input_file = <<"a", SP, "b", SP, "c", NL>> =>
              /\ output_file = <<<<index(bpe_dict, <<"a">>), index(bpe_dict, <<"b">>),
                                   unk_idx, eos_idx>>>>
              /\ index(bpe_dict, <<"a">>) = num_special
              /\ index(bpe_dict, <<"b">>) = num_special + 1
              /\ unk_counter = (<<"c">> :> 1)
              /\ nsent = 1
              /\ ntok = 4

Wit_C7_ScenarioBinarized ==
    /\ Scenario_C7
    /\ input_file = <<"a", SP, "b", SP, "c", NL>>
    /\ output_file # NoFile
    /\ pc = "binarize"

====
